---- MODULE Spec2Model ----
(***************************************************************************)
(* The training driver of kr-dialect-machine-translation (src/main.py):    *)
(* main() builds the model and runs args.epoch rounds of train() and       *)
(* validate(), then saves the parameters.                                  *)
(*                                                                         *)
(* Abstractions.  Floating point numbers are exact rationals <<n, d>>      *)
(* (NaN is <<0, 0>>).  The logits the network puts out are not computed:   *)
(* each output position carries its own index and the negative             *)
(* log-likelihood it would be charged by the criterion, either 1 or        *)
(* MaxNll.  The parameters are the number of optimizer steps applied to    *)
(* the freshly initialised weights; .grad is the set of batches whose      *)
(* gradient it holds.  A log file is appended to and never read back: the  *)
(* model keeps the epochs of its records and the average of the last one.  *)
(* Wall-clock meters (iter_time, data_time) and the progress print are     *)
(* left out: they never change any other state.                            *)
(***************************************************************************)
EXTENDS Integers, Sequences, FiniteSets, Bags, TLC

\* Bounds of the model.
MaxEpoch == 2
MaxBatches == 2
MaxLoc == 1
MaxCells == 4
MaxNll == 2

\* Program constants.
PadId == 0
PieceSize == 4000

\* The end-to-end example of the specification (section 8).
ExampleSrc == <<5, 12, 7, PadId, PadId>>
ExampleTgt == <<1, 3, 9, 2, PadId>>
Bos == ExampleTgt[1]
Tok == ExampleTgt[2]
Eos == ExampleTgt[4]

VARIABLES
    pc,           \* position of the single control thread
    epochs,       \* args.epoch
    nTrain,       \* len(train_loader)
    nVal,         \* len(val_loader)
    data,         \* the dataset: "small" or "sized"
    useLoc,       \* args.use_loc
    numLocation,  \* len(np.unique(val_dataset.location_label))
    built,        \* encoder, decoder and Transformer are constructed
    numVocab,     \* num_vocab
    params,       \* model parameters: optimizer steps applied so far
    grad,         \* the .grad buffers: batches whose gradient they hold
    mode,         \* model.training: "train" or "eval"
    grad_enabled, \* FALSE inside torch.no_grad()
    epoch,        \* loop variable of main
    i,            \* batches fetched so far by the running loop
    src, tgt, output, loss,   \* locals of the loop body
    train_loss,   \* AverageMeter of train()
    val_loss,     \* AverageMeter of validate()
    seen,         \* history: bag of <<loss, batch size, labels all pad>> of the running loop
    trainLog,     \* train.log: epochs of its records, average of the last
    valLog,       \* val.log: epochs of its records, average of the last
    disk,         \* last_model.pth: <<>> or <<params>>
    nsaves,       \* number of torch.save calls
    failedIn      \* history: the loop in which a batch raised, or "none"

config == <<epochs, nTrain, nVal, data, useLoc, numLocation>>
locals == <<src, tgt, output, loss>>
vars == <<pc, epochs, nTrain, nVal, data, useLoc, numLocation, built, numVocab,
          params, grad, mode, grad_enabled, epoch, i, src, tgt, output, loss,
          train_loss, val_loss, seen, trainLog, valLog, disk, nsaves, failedIn>>

(***************************************************************************)
(* Float arithmetic as exact rationals.                                    *)
(***************************************************************************)
RECURSIVE Gcd(_, _)
Gcd(a, b) == IF b = 0 THEN a ELSE Gcd(b, a % b)

NaN == <<0, 0>>
Zero == <<0, 1>>
IsNaN(x) == x[2] = 0

\* n / d as a tensor division: 0 / 0 is NaN.
Rat(n, d) == IF d = 0 THEN NaN ELSE <<n \div Gcd(n, d), d \div Gcd(n, d)>>

RatAdd(x, y) == IF IsNaN(x) \/ IsNaN(y) THEN NaN
                ELSE Rat(x[1] * y[2] + y[1] * x[2], x[2] * y[2])
RatScale(x, n) == IF IsNaN(x) THEN NaN ELSE Rat(x[1] * n, x[2])
RatDiv(x, n) == IF IsNaN(x) THEN NaN ELSE Rat(x[1], x[2] * n)

RECURSIVE SumOver(_, _)
SumOver(f, S) == IF S = {} THEN 0
                 ELSE LET n == CHOOSE m \in S : TRUE
                      IN  f[n] + SumOver(f, S \ {n})

(***************************************************************************)
(* Tensors: a [B, T] tensor is a sequence of B rows of length T.           *)
(***************************************************************************)
\* A target row: bos, m - 1 further tokens ending in eos, then padding.
Row(T, m) == [k \in 1..T |-> IF k = 1 THEN Bos
                             ELSE IF k > m THEN PadId
                             ELSE IF k = m THEN Eos ELSE Tok]
Rows(T) == {Row(T, m) : m \in 1..T}

Batch(s, t) == [src |-> s, tgt |-> t]
BatchesOf(B, T) == {Batch([b \in 1..B |-> ExampleSrc], t) : t \in [1..B -> Rows(T)]}

ExampleBatch == Batch(<<ExampleSrc>>, <<ExampleTgt>>)

\* Every batch of B rows and T >= 2 columns with B * (T - 1) <= MaxCells.
Shapes == {s \in (1..MaxCells) \X (2..(MaxCells + 1)) : s[1] * (s[2] - 1) <= MaxCells}
SizedData == {ExampleBatch} \cup UNION {BatchesOf(s[1], s[2]) : s \in Shapes}

\* Three batches of different sizes; the labels of the last are all padding.
SmallData == {Batch(<<ExampleSrc>>, <<Row(2, 2)>>),
              Batch(<<ExampleSrc, ExampleSrc>>, <<Row(2, 2), Row(2, 1)>>),
              Batch(<<ExampleSrc>>, <<Row(2, 1)>>)}

\* The batches the loaders can deliver.
Batches == IF data = "small" THEN SmallData ELSE SizedData

\* tgt[:, :-1]
DecoderInput(t) == [b \in 1..Len(t) |-> SubSeq(t[b], 1, Len(t[b]) - 1)]

\* Mutant: the label is cut like the decoder input, tgt[:, :-1].
ShiftedLabelUnshifted(t) == [b \in 1..Len(t) |-> SubSeq(t[b], 1, Len(t[b]) - 1)]

\* tgt[:, 1:]
ShiftedLabel(t) == [b \in 1..Len(t) |-> SubSeq(t[b], 2, Len(t[b]))]

\* x.contiguous().view(-1) and x.contiguous().view(-1, dim): row-major.
RECURSIVE Flatten(_)
Flatten(m) == IF m = <<>> THEN <<>> ELSE Head(m) \o Flatten(Tail(m))

\* model(src, dec): one output position per input position of dec, each a
\* vector of vocab logits.  The position (b, k) is kept with the decoder
\* input token it stands on and with nll[b][k], what the criterion charges it.
ModelForward(s, dec, nll, vocab) ==
    [rows |-> [b \in 1..Len(dec) |->
                  [k \in 1..Len(dec[b]) |->
                      [pos |-> <<b, k>>, inp |-> dec[b][k], nll |-> nll[b][k]]]],
     dim  |-> vocab]

\* output.shape before it is flattened
Shape(out) == <<Len(out.rows), Len(out.rows[1]), out.dim>>

NllVals == {1, MaxNll}
NllChoices(dec) == [1..Len(dec) -> [1..Len(dec[1]) -> NllVals]]

\* Mutant: nn.CrossEntropyLoss() without ignore_index, the mean over all positions.
CriterionNoIgnore(out, label) ==
    Rat(SumOver([n \in 1..Len(label) |-> out[n].nll], 1..Len(label)), Len(label))

\* nn.CrossEntropyLoss(ignore_index=sp.pad_id()), reduction 'mean': the mean
\* over the positions whose label is not the pad id (0 / 0 when there is none).
Contributing(label) == {n \in 1..Len(label) : label[n] # PadId}
AllPad(label) == \A n \in 1..Len(label) : label[n] = PadId
Criterion(out, label) ==
    Rat(SumOver([n \in 1..Len(label) |-> out[n].nll], Contributing(label)),
        Cardinality(Contributing(label)))

(***************************************************************************)
(* AverageMeter (utils): running sum and count.                            *)
(***************************************************************************)
AverageMeter == [sum |-> Zero, count |-> 0, avg |-> Zero]
Update(m, val, n) ==
    LET s == RatAdd(m.sum, RatScale(val, n))
    IN  [sum |-> s, count |-> m.count + n, avg |-> RatDiv(s, m.count + n)]

(***************************************************************************)
(* main                                                                    *)
(***************************************************************************)
NumVocab(loc, pieces, nloc) == IF loc THEN pieces + nloc ELSE pieces

\* Logger (utils): write appends one record.
NoLog == [epochs |-> <<>>, avg |-> Zero]
Write(log, e, avg) == [epochs |-> Append(log.epochs, e), avg |-> avg]

NoTensor == <<>>
NoOutput == [rows |-> <<>>, dim |-> 0]

InitRun ==
    /\ pc = "create"
    /\ built = FALSE /\ numVocab = 0
    /\ params = 0 /\ grad = {} /\ mode = "train" /\ grad_enabled = TRUE
    /\ epoch = 0 /\ i = 0
    /\ src = NoTensor /\ tgt = NoTensor /\ output = NoOutput /\ loss = Zero
    /\ train_loss = AverageMeter /\ val_loss = AverageMeter /\ seen = EmptyBag
    /\ trainLog = NoLog /\ valLog = NoLog
    /\ disk = <<>> /\ nsaves = 0 /\ failedIn = "none"

\* Runs of several epochs over a small dataset.
InitLoop ==
    /\ epochs \in 0..MaxEpoch
    /\ nTrain \in 0..MaxBatches /\ nVal \in 0..MaxBatches
    /\ data = "small"
    /\ useLoc = FALSE /\ numLocation = 1

\* One epoch of a single batch, in train or in validate, over every batch
\* within MaxCells.
InitBatch ==
    /\ epochs = 1
    /\ nTrain \in {0, 1} /\ nVal = 1 - nTrain
    /\ data = "sized"
    /\ useLoc = FALSE /\ numLocation = 1

\* Every setting of the location conditioning.
InitConfig ==
    /\ epochs = 1 /\ nTrain = 1 /\ nVal = 1
    /\ data = "small"
    /\ useLoc \in BOOLEAN /\ numLocation \in 0..MaxLoc

Init == InitRun /\ InitLoop
InitOfBatch == InitRun /\ InitBatch
InitOfConfig == InitRun /\ InitConfig

\* main.py 82-122: vocabulary size, encoder, decoder, Transformer,
\* initialize_weights, criterion, optimizer, loggers.
CreateModel ==
    /\ pc = "create"
    /\ numVocab' = NumVocab(useLoc, PieceSize, numLocation)
    /\ built' = TRUE
    /\ params' = 0
    /\ pc' = "epoch"
    /\ UNCHANGED <<config, grad, mode, grad_enabled, epoch, i, locals,
                   train_loss, val_loss, seen, trainLog, valLog, disk, nsaves, failedIn>>

\* for epoch in range(args.epoch)
EpochLoop ==
    /\ pc = "epoch"
    /\ pc' = IF epoch < epochs THEN "t_enter" ELSE "save"
    /\ UNCHANGED <<config, built, numVocab, params, grad, mode, grad_enabled, epoch,
                   i, locals, train_loss, val_loss, seen, trainLog, valLog, disk,
                   nsaves, failedIn>>

\* torch.save(model.state_dict(), ...)
SaveModel ==
    /\ pc = "save"
    /\ disk' = <<params>>
    /\ nsaves' = nsaves + 1
    /\ pc' = "done"
    /\ UNCHANGED <<config, built, numVocab, params, grad, mode, grad_enabled, epoch,
                   i, locals, train_loss, val_loss, seen, trainLog, valLog, failedIn>>

(***************************************************************************)
(* train                                                                   *)
(***************************************************************************)
\* Mutant: train() without model.train().
TrainEnterNoModeSwitch ==
    /\ pc = "t_enter"
    /\ train_loss' = AverageMeter
    /\ i' = 0
    /\ seen' = EmptyBag
    /\ pc' = "t_iter"
    /\ UNCHANGED <<config, built, numVocab, params, grad, mode, grad_enabled, epoch,
                   locals, val_loss, trainLog, valLog, disk, nsaves, failedIn>>

TrainEnter ==
    /\ pc = "t_enter"
    /\ mode' = "train"
    /\ train_loss' = AverageMeter
    /\ i' = 0
    /\ seen' = EmptyBag
    /\ pc' = "t_iter"
    /\ UNCHANGED <<config, built, numVocab, params, grad, grad_enabled, epoch, locals,
                   val_loss, trainLog, valLog, disk, nsaves, failedIn>>

\* for i, (src, tgt, label) in enumerate(loader); .to(device)
TrainFetch ==
    /\ pc = "t_iter"
    /\ IF i < nTrain
       THEN \E b \in Batches :
               /\ src' = b.src /\ tgt' = b.tgt
               /\ i' = i + 1
               /\ pc' = "t_zero"
       ELSE /\ pc' = "t_end"
            /\ UNCHANGED <<src, tgt, i>>
    /\ UNCHANGED <<config, built, numVocab, params, grad, mode, grad_enabled, epoch,
                   output, loss, train_loss, val_loss, seen, trainLog, valLog, disk,
                   nsaves, failedIn>>

\* Mutant: the loop body without optimizer.zero_grad().
TrainZeroGradSkipped ==
    /\ pc = "t_zero"
    /\ pc' = "t_fwd"
    /\ UNCHANGED <<config, built, numVocab, params, grad, mode, grad_enabled, epoch, i,
                   locals, train_loss, val_loss, seen, trainLog, valLog, disk, nsaves,
                   failedIn>>

\* optimizer.zero_grad()
TrainZeroGrad ==
    /\ pc = "t_zero"
    /\ grad' = {}
    /\ pc' = "t_fwd"
    /\ UNCHANGED <<config, built, numVocab, params, mode, grad_enabled, epoch, i,
                   locals, train_loss, val_loss, seen, trainLog, valLog, disk, nsaves,
                   failedIn>>

\* output, _ = model(src, tgt[:, :-1])
TrainForward ==
    /\ pc = "t_fwd"
    /\ \E nll \in NllChoices(DecoderInput(tgt)) :
          output' = ModelForward(src, DecoderInput(tgt), nll, numVocab)
    /\ pc' = "t_loss"
    /\ UNCHANGED <<config, built, numVocab, params, grad, mode, grad_enabled, epoch, i,
                   src, tgt, loss, train_loss, val_loss, seen, trainLog, valLog, disk,
                   nsaves, failedIn>>

\* output = output.view(-1, output_dim); tgt = tgt[:, 1:].view(-1);
\* loss = criterion(output, tgt)
TrainLoss ==
    /\ pc = "t_loss"
    /\ output' = [output EXCEPT !.rows = Flatten(output.rows)]
    /\ tgt' = Flatten(ShiftedLabel(tgt))
    /\ loss' = Criterion(output'.rows, tgt')
    /\ pc' = "t_back"
    /\ UNCHANGED <<config, built, numVocab, params, grad, mode, grad_enabled, epoch, i,
                   src, train_loss, val_loss, seen, trainLog, valLog, disk, nsaves,
                   failedIn>>

\* The number of the running train batch, counted over the whole run.
BatchNo == epoch * nTrain + i

\* loss.backward(): adds this batch's gradient to .grad
TrainBackward ==
    /\ pc = "t_back"
    /\ grad_enabled
    /\ grad' = grad \cup {BatchNo}
    /\ pc' = "t_step"
    /\ UNCHANGED <<config, built, numVocab, params, mode, grad_enabled, epoch, i,
                   locals, train_loss, val_loss, seen, trainLog, valLog, disk, nsaves,
                   failedIn>>

\* optimizer.step()
TrainStep ==
    /\ pc = "t_step"
    /\ params' = params + 1
    /\ pc' = "t_upd"
    /\ UNCHANGED <<config, built, numVocab, grad, mode, grad_enabled, epoch, i, locals,
                   train_loss, val_loss, seen, trainLog, valLog, disk, nsaves, failedIn>>

\* Mutant: train_loss.update(loss.item()), every batch weighted 1.
TrainUpdateUnweighted ==
    /\ pc = "t_upd"
    /\ train_loss' = Update(train_loss, loss, 1)
    /\ seen' = seen (+) SetToBag({<<loss, Len(src), AllPad(tgt)>>})
    /\ src' = NoTensor /\ tgt' = NoTensor /\ output' = NoOutput /\ loss' = Zero
    /\ pc' = "t_iter"
    /\ UNCHANGED <<config, built, numVocab, params, grad, mode, grad_enabled, epoch, i,
                   val_loss, trainLog, valLog, disk, nsaves, failedIn>>

\* train_loss.update(loss.item(), src.size(0)); the locals are rebound by the
\* next iteration before they are read again.
TrainUpdate ==
    /\ pc = "t_upd"
    /\ train_loss' = Update(train_loss, loss, Len(src))
    /\ seen' = seen (+) SetToBag({<<loss, Len(src), AllPad(tgt)>>})
    /\ src' = NoTensor /\ tgt' = NoTensor /\ output' = NoOutput /\ loss' = Zero
    /\ pc' = "t_iter"
    /\ UNCHANGED <<config, built, numVocab, params, grad, mode, grad_enabled, epoch, i,
                   val_loss, trainLog, valLog, disk, nsaves, failedIn>>

\* train_logger.write([epoch, train_loss.avg, ...]); return: the meter is gone.
TrainEnd ==
    /\ pc = "t_end"
    /\ trainLog' = Write(trainLog, epoch, train_loss.avg)
    /\ train_loss' = AverageMeter
    /\ pc' = "v_enter"
    /\ UNCHANGED <<config, built, numVocab, params, grad, mode, grad_enabled, epoch, i,
                   locals, val_loss, seen, valLog, disk, nsaves, failedIn>>

(***************************************************************************)
(* validate                                                                *)
(***************************************************************************)
\* model.eval(); val_loss = AverageMeter(); with torch.no_grad():
ValidateEnter ==
    /\ pc = "v_enter"
    /\ mode' = "eval"
    /\ val_loss' = AverageMeter
    /\ grad_enabled' = FALSE
    /\ i' = 0
    /\ seen' = EmptyBag
    /\ pc' = "v_iter"
    /\ UNCHANGED <<config, built, numVocab, params, grad, epoch, locals, train_loss,
                   trainLog, valLog, disk, nsaves, failedIn>>

ValidateFetch ==
    /\ pc = "v_iter"
    /\ IF i < nVal
       THEN \E b \in Batches :
               /\ src' = b.src /\ tgt' = b.tgt
               /\ i' = i + 1
               /\ pc' = "v_fwd"
       ELSE /\ pc' = "v_end"
            /\ UNCHANGED <<src, tgt, i>>
    /\ UNCHANGED <<config, built, numVocab, params, grad, mode, grad_enabled, epoch,
                   output, loss, train_loss, val_loss, seen, trainLog, valLog, disk,
                   nsaves, failedIn>>

ValidateForward ==
    /\ pc = "v_fwd"
    /\ \E nll \in NllChoices(DecoderInput(tgt)) :
          output' = ModelForward(src, DecoderInput(tgt), nll, numVocab)
    /\ pc' = "v_loss"
    /\ UNCHANGED <<config, built, numVocab, params, grad, mode, grad_enabled, epoch, i,
                   src, tgt, loss, train_loss, val_loss, seen, trainLog, valLog, disk,
                   nsaves, failedIn>>

ValidateLoss ==
    /\ pc = "v_loss"
    /\ output' = [output EXCEPT !.rows = Flatten(output.rows)]
    /\ tgt' = Flatten(ShiftedLabel(tgt))
    /\ loss' = Criterion(output'.rows, tgt')
    /\ pc' = "v_upd"
    /\ UNCHANGED <<config, built, numVocab, params, grad, mode, grad_enabled, epoch, i,
                   src, train_loss, val_loss, seen, trainLog, valLog, disk, nsaves,
                   failedIn>>

\* Mutant: the train body pasted into validate, optimizer.step() included.
ValidateUpdateStepping ==
    /\ pc = "v_upd"
    /\ params' = params + 1
    /\ val_loss' = Update(val_loss, loss, Len(src))
    /\ seen' = seen (+) SetToBag({<<loss, Len(src), AllPad(tgt)>>})
    /\ src' = NoTensor /\ tgt' = NoTensor /\ output' = NoOutput /\ loss' = Zero
    /\ pc' = "v_iter"
    /\ UNCHANGED <<config, built, numVocab, grad, mode, grad_enabled, epoch, i,
                   train_loss, trainLog, valLog, disk, nsaves, failedIn>>

\* val_loss.update(loss.item(), src.size(0))
ValidateUpdate ==
    /\ pc = "v_upd"
    /\ val_loss' = Update(val_loss, loss, Len(src))
    /\ seen' = seen (+) SetToBag({<<loss, Len(src), AllPad(tgt)>>})
    /\ src' = NoTensor /\ tgt' = NoTensor /\ output' = NoOutput /\ loss' = Zero
    /\ pc' = "v_iter"
    /\ UNCHANGED <<config, built, numVocab, params, grad, mode, grad_enabled, epoch, i,
                   train_loss, trainLog, valLog, disk, nsaves, failedIn>>

\* Mutant: a checkpoint written at the end of every epoch.
ValidateEndCheckpoint ==
    /\ pc = "v_end"
    /\ grad_enabled' = TRUE
    /\ valLog' = Write(valLog, epoch, val_loss.avg)
    /\ val_loss' = AverageMeter
    /\ disk' = <<params>>
    /\ nsaves' = nsaves + 1
    /\ epoch' = epoch + 1
    /\ pc' = "epoch"
    /\ UNCHANGED <<config, built, numVocab, params, grad, mode, i, locals, train_loss,
                   seen, trainLog, failedIn>>

\* leaving torch.no_grad(); val_logger.write([epoch, val_loss.avg]); return
\* (the meter is gone) to main's loop, which takes the next epoch.
ValidateEnd ==
    /\ pc = "v_end"
    /\ grad_enabled' = TRUE
    /\ valLog' = Write(valLog, epoch, val_loss.avg)
    /\ epoch' = epoch + 1
    /\ val_loss' = AverageMeter
    /\ pc' = "epoch"
    /\ UNCHANGED <<config, built, numVocab, params, grad, mode, i, locals, train_loss,
                   seen, trainLog, disk, nsaves, failedIn>>

(***************************************************************************)
(* A batch that raises: nothing in main, train or validate catches.        *)
(***************************************************************************)
TrainBatchPcs == {"t_zero", "t_fwd", "t_loss", "t_back", "t_step", "t_upd"}
ValidateBatchPcs == {"v_fwd", "v_loss", "v_upd"}
ValidatePcs == {"v_iter", "v_end"} \cup ValidateBatchPcs

\* Mutant: the loop body in try / except: continue.
RaiseSwallowed ==
    /\ pc' = IF pc \in TrainBatchPcs THEN "t_iter" ELSE "v_iter"
    /\ UNCHANGED <<config, built, numVocab, params, grad, mode, grad_enabled, epoch, i,
                   locals, train_loss, val_loss, seen, trainLog, valLog, disk, nsaves>>

Raise ==
    /\ pc' = "aborted"
    /\ UNCHANGED <<config, built, numVocab, params, grad, mode, grad_enabled, epoch, i,
                   locals, train_loss, val_loss, seen, trainLog, valLog, disk, nsaves>>

BatchFails ==
    /\ pc \in TrainBatchPcs \cup ValidateBatchPcs
    /\ failedIn' = IF pc \in TrainBatchPcs THEN "train" ELSE "validate"
    /\ Raise

Next ==
    \/ CreateModel
    \/ EpochLoop
    \/ SaveModel
    \/ TrainEnter
    \/ TrainFetch
    \/ TrainZeroGrad
    \/ TrainForward
    \/ TrainLoss
    \/ TrainBackward
    \/ TrainStep
    \/ TrainUpdate
    \/ TrainEnd
    \/ ValidateEnter
    \/ ValidateFetch
    \/ ValidateForward
    \/ ValidateLoss
    \/ ValidateUpdate
    \/ ValidateEnd
    \/ BatchFails

Spec == Init /\ [][Next]_vars
SpecBatch == InitOfBatch /\ [][Next]_vars
SpecConfig == InitOfConfig /\ [][Next]_vars

(***************************************************************************)
(* Properties                                                              *)
(***************************************************************************)
TrainPcs == {"t_enter", "t_iter", "t_end"} \cup TrainBatchPcs
\* A step that flattens output and label and computes the loss.
LossStep == pc \in {"t_loss", "v_loss"} /\ pc' \in {"t_back", "v_upd"}

\* The batch-size-weighted mean of the losses of a bag of batches.
RECURSIVE WSum(_, _)
WSum(bag, es) == IF es = {} THEN Zero
                 ELSE LET e == CHOOSE x \in es : TRUE
                      IN  RatAdd(RatScale(e[1], e[2] * CopiesIn(e, bag)),
                                 WSum(bag, es \ {e}))
RECURSIVE WCount(_, _)
WCount(bag, es) == IF es = {} THEN 0
                   ELSE LET e == CHOOSE x \in es : TRUE
                        IN  e[2] * CopiesIn(e, bag) + WCount(bag, es \ {e})
WMeanOf(bag, es) == IF es = {} THEN Zero ELSE RatDiv(WSum(bag, es), WCount(bag, es))
WMean(bag) == WMeanOf(bag, BagToSet(bag))

\* What a loss step does to output and label.
ShiftedByOne ==
    LossStep =>
          /\ Len(output.rows) = Len(tgt)
          /\ \A b \in 1..Len(tgt) :
                /\ Len(output.rows[b]) = Len(tgt[b]) - 1
                /\ \A k \in 1..(Len(tgt[b]) - 1) : output.rows[b][k].inp = tgt[b][k]
          /\ Len(tgt') = Len(tgt) * (Len(tgt[1]) - 1)
          /\ Len(output'.rows) = Len(tgt')
          /\ \A n \in 1..Len(tgt') :
                LET p == output'.rows[n].pos
                IN  tgt'[n] = tgt[p[1]][p[2] + 1]

\* C1: in train and in validate, for a target of T >= 2 columns the decoder
\* input is the target without its last column and the flattened label is
\* the target without its first column; both have T - 1 columns, and the
\* prediction at (b, k) is scored against target token (b, k + 1).
C1_ShiftByOne == [][ShiftedByOne]_vars

C1_Witness ==
    /\ pc = "v_upd"
    /\ Len(src) = 2 /\ Len(tgt) = 4
    /\ output.rows[3].pos = <<2, 1>> /\ tgt[3] = Eos /\ tgt[4] = PadId

\* C2: the average written to the train logger at the end of an epoch is the
\* batch-size-weighted mean of the losses of that epoch's batches (sizes
\* 2, 4, 4 with losses 1, 2, 3 give 2.2), and of no earlier epoch's.
C2_WeightedMean ==
    /\ Update(Update(Update(AverageMeter, <<1, 1>>, 2), <<2, 1>>, 4), <<3, 1>>, 4).avg
          = Rat(22, 10)
    /\ pc = "v_enter" /\ seen # EmptyBag => trainLog.avg = WMean(seen)

C2_Witness ==
    /\ pc = "v_enter" /\ epoch = 1
    /\ trainLog.avg = <<5, 3>>
    /\ BagToSet(seen) = {<<<<1, 1>>, 1, FALSE>>, <<<<2, 1>>, 2, FALSE>>}

InValidate == pc \in ValidatePcs \cup {"v_enter"}
ParamsKept == InValidate => (params' = params /\ grad' = grad)

\* C3: validate never changes the parameters: it takes no backward pass and
\* no optimizer step, and each of its forward passes runs in evaluation mode
\* inside the no-gradient scope.
C3_ValidateKeepsParams ==
    /\ [](pc \in ValidateBatchPcs => mode = "eval" /\ ~grad_enabled)
    /\ [][ParamsKept]_vars

C3_Witness ==
    /\ pc = "epoch" /\ epoch = 2
    /\ nVal = 2 /\ nTrain = 1 /\ params = 2

\* C4: the parameters are written to disk exactly once, after the train and
\* validate calls of every epoch, never before or between epochs, and no
\* parameter changes after the write.
C4_SavedOnceAtEnd ==
    /\ nsaves <= 1
    /\ pc = "done" => nsaves = 1
    /\ nsaves = 0 => disk = <<>>
    /\ nsaves = 1 =>
          /\ pc = "done"
          /\ disk = <<params>>
          /\ trainLog.epochs = [e \in 1..epochs |-> e - 1]
          /\ valLog.epochs = [e \in 1..epochs |-> e - 1]

C4_Witness ==
    /\ pc = "done" /\ epochs = 2 /\ nTrain = 2
    /\ disk = <<4>>

\* C5: every train batch goes zero_grad, forward, loss, backward, step; one
\* optimizer step per batch, on the gradient of that batch alone.
C5_OneStepPerBatch ==
    /\ pc \in {"t_fwd", "t_loss", "t_back"} => grad = {}
    /\ pc \in {"t_step", "t_upd"} => grad = {BatchNo}
    /\ pc \in {"t_zero", "t_fwd", "t_loss", "t_back", "t_step"} => params = BatchNo - 1
    /\ pc \in {"t_upd", "t_iter", "t_end"} => params = BatchNo

C5_Witness ==
    /\ pc = "t_upd" /\ epoch = 1 /\ i = 2
    /\ grad = {4} /\ params = 4

OnExample == LossStep /\ src = <<ExampleSrc>> /\ tgt = <<ExampleTgt>>
ExampleAsClaimed ==
    OnExample => /\ Shape(output) = <<1, 3, numVocab>>
                 /\ tgt' = <<3, 9, Eos>>

\* C6 as claimed: for source [5, 12, 7, pad, pad] and target
\* [bos, 3, 9, eos, pad] the logits have shape [1, 3, vocabSize] and the
\* flattened label is [3, 9, eos].
C6_Claimed == [][ExampleAsClaimed]_vars

ExampleAsAmended ==
    OnExample => /\ Shape(output) = <<1, 4, numVocab>>
                 /\ tgt' = <<3, 9, Eos, PadId>>
                 /\ loss' = Rat(output.rows[1][1].nll + output.rows[1][2].nll
                                   + output.rows[1][3].nll, 3)

\* C6 as amended: the logits have shape [1, 4, vocabSize], the flattened
\* label is [3, 9, eos, pad], and the loss is the mean over the first three
\* positions: the pad position does not contribute.
C6_Example == [][ExampleAsAmended]_vars

C6_Witness ==
    /\ pc = "t_back" /\ src = <<ExampleSrc>>
    /\ tgt = <<3, 9, Eos, PadId>>
    /\ output.rows[4].nll = MaxNll /\ loss = <<1, 1>>

\* What a loop that saw a batch of all-pad labels may report.
PadEntries == {e \in BagToSet(seen) : e[3]}
C7_Reported(log) ==
    PadEntries # {} =>
       /\ ~IsNaN(log.avg)
       /\ \/ log.avg = WMeanOf(seen, BagToSet(seen) \ PadEntries)
          \/ /\ \A e \in PadEntries : e[1] = Zero
             /\ log.avg = WMean(seen)

\* C7: a batch whose labels are all padding has loss zero or is left out of
\* the running average; either way the average reported at the end of the
\* loop is finite, the weighted mean of the other batches' losses.
C7_AllPadHarmless ==
    /\ pc = "v_enter" => C7_Reported(trainLog)
    /\ pc = "epoch" /\ epoch > 0 => C7_Reported(valLog)

\* C8: with use_loc and no location label main fails before any encoder,
\* decoder or Transformer is built and before any training step; the
\* vocabulary size is the piece count, plus the number of location labels
\* under use_loc.
C8_FailsWithoutLabels ==
    /\ useLoc /\ numLocation = 0 => ~built /\ pc \in {"create", "aborted"}
    /\ built => numVocab = IF useLoc THEN PieceSize + numLocation ELSE PieceSize

NotFailed == failedIn = "none"

\* C9: a batch that fails ends the run: nothing is processed after it, the
\* summary record of the failing loop is not written for that epoch, and the
\* parameter file is never written.
C9_FailureAborts ==
    /\ [](failedIn # "none" =>
             /\ pc = "aborted"
             /\ disk = <<>> /\ nsaves = 0
             /\ failedIn = "train" => Len(trainLog.epochs) = epoch
             /\ failedIn = "validate" => Len(valLog.epochs) = epoch)
    /\ [][NotFailed]_vars

C9_Witness ==
    /\ failedIn = "validate" /\ pc = "aborted"
    /\ epochs = 2 /\ epoch = 0 /\ nVal = 2 /\ i = 1
    /\ trainLog.epochs = <<0>>

\* C10: every forward pass that is followed by an optimizer step runs in
\* training mode and every validation forward pass in evaluation mode, in
\* every epoch; within an epoch train completes before validate starts.
C10_ModeSwitching ==
    /\ pc \in TrainBatchPcs => mode = "train" /\ grad_enabled
    /\ pc \in ValidateBatchPcs => mode = "eval"
    /\ pc \in TrainPcs => Len(trainLog.epochs) = epoch /\ Len(valLog.epochs) = epoch
    /\ pc \in ValidatePcs => Len(trainLog.epochs) = epoch + 1 /\ Len(valLog.epochs) = epoch

C10_Witness ==
    /\ pc = "t_fwd" /\ epoch = 1 /\ mode = "train"
    /\ valLog.epochs = <<0>> /\ nVal > 0

====
